---------------------------- MODULE Spec2Model ----------------------------
(***************************************************************************)
(* Model of betaPBH/functions.py: the mass-grid builder put_M_array, the   *)
(* formation-density model (k_end_over_k, rho_f), the seven constraint     *)
(* evaluators Betas_*, the LSP-Omega helper Omegas_LSP and the envelope    *)
(* combiner get_Betas_full, together with the process-wide accumulators of *)
(* the constraints module they write to.                                   *)
(*                                                                         *)
(* Number representation.  Every positive real x of the program (a mass, a *)
(* density, a beta) is represented by the integer 100*log10(x), rounded:   *)
(* the order of the reals is the order of the integers, a product is a sum *)
(* and a power is a scaling.  The float 0.0 is NegInf and the float inf is *)
(* Inf, the way numpy produces them (division by zero gives inf with a     *)
(* warning, no exception).  Negative masses are outside the model.         *)
(*                                                                         *)
(* solve_ivp is a library call: its outcome for one (mass, beta) is an     *)
(* input of the loop iteration that calls it, drawn from SolveOutcomes.    *)
(***************************************************************************)
EXTENDS Integers, Sequences, FiniteSets

\* ------------------------------------------------------------------------
\* Bounds of the model
\* ------------------------------------------------------------------------
\* longest grid handed to an evaluator in a free session
MaxLen == 2
\* evaluator calls per free session / calls of one evaluator per pipeline
MaxCalls == 2

\* ------------------------------------------------------------------------
\* Floats: zero and infinity in the logarithmic representation
\* ------------------------------------------------------------------------
Inf == 1000 * 1000
NegInf == -Inf

\* log of a*b
LogMul(a, b) ==
    IF a = NegInf \/ b = NegInf THEN NegInf
    ELSE IF a = Inf \/ b = Inf THEN Inf
    ELSE a + b

\* log of a/b
LogDiv(a, b) ==
    IF b = NegInf THEN Inf
    ELSE IF a = NegInf \/ b = Inf THEN NegInf
    ELSE IF a = Inf THEN Inf
    ELSE a - b

\* log of a**(n/d), d > 0
LogPow(a, n, d) ==
    IF n = 0 THEN 0
    ELSE IF a = NegInf THEN (IF n > 0 THEN NegInf ELSE Inf)
    ELSE IF a = Inf THEN (IF n > 0 THEN Inf ELSE NegInf)
    ELSE (a * n) \div d

\* ------------------------------------------------------------------------
\* constants module (not among the sources: values after the specification's
\* description of the Constants Provider, in the logarithmic representation)
\* ------------------------------------------------------------------------
\* Planck mass in grams, 2.18e-5
M_pl_g == -466
\* radiation factor gam_rad, 0.2
gam_rad == -70
\* end-of-inflation Hubble rate and Planck mass in the units of k_end_over_k
H_end == 0
M_pl == 0
\* end-of-inflation density
rho_end_inf == 0
\* sentinel beta
ev1 == 10000
\* sentinel Omega
ev2 == [f |-> "ev2", m |-> 0]
\* gam_rad**(1/2)
SqrtGamRad == LogPow(gam_rad, 1, 2)
\* the values constants.rho_end may take: a late reference epoch that every
\* mass of the model forms before, and an early one that masses of about
\* 10^11.3 and more form after
RhoEndLate == -6000
RhoEndEarly == -2300
RhoEnds == {RhoEndLate, RhoEndEarly}

\* ------------------------------------------------------------------------
\* Literals of functions.py
\* ------------------------------------------------------------------------
L_3 == 48
L_4p1e14 == 1461
L_1e11 == 1100
L_1e13 == 1300
L_1e15 == 1500
L_1e17 == 1700
L_2p5e13 == 1340
L_2p4e14 == 1438
L_3e13 == 1348
L_7e16 == 1685
L_1e20 == 2000
L_1p86em18 == -1773
L_2em28 == -2770
L_1em21 == -2100
L_3em30 == -2952
L_5em28 == -2730
L_5em26 == -2530
L_2p4em26 == -2562
L_1em18 == -1800
\* the row of the abundance table that starts the second BBN window
Row76 == 76

\* ------------------------------------------------------------------------
\* constraints module (not among the sources): the experimental table
\* ------------------------------------------------------------------------
\* rows of the table, 0 .. 76 (row k is element k+1 of the sequences)
TableRows == 77
TableStart == 900
TableStep == 5
MakeTable(start, step) == [k \in 1..TableRows |-> start + (k - 1) * step]
DefaultDataMass == MakeTable(TableStart, TableStep)
\* abundance bound of row k, distinct per row
data_abundances == [k \in 1..TableRows |-> -2200 + (k - 1)]


\* ------------------------------------------------------------------------
\* State
\* ------------------------------------------------------------------------
VARIABLES
    data_mass,   \* constraints.data_mass, the mass column of the table
    delta_M,     \* the resolution the session hands to put_M_array
    M_tot,       \* constraints.M_tot: [kind, val], a Python list or an ndarray
    grid,        \* the array the session hands to the evaluators as M_tot
    omega3,      \* three times the omega the session hands to the evaluators
    ln_den_end,  \* module-level ln_den_end = log(constants.rho_end)
    driver,      \* how the caller sequences the calls: "free" or "pipeline"
    betas_tot,   \* constraints.betas_<c>_tot, one list per constraint
    Omega_tot,   \* constraints.Omega_<c>_tot, one list per integrating constraint
    betas_full,  \* constraints.betas_full
    calls,       \* calls of each evaluator that have returned
    pc,          \* "idle", "raised", or the function whose loop is running
    i,           \* loop index of the running function (1-based)
    j,           \* Betas_BBN's running row index
    loc,         \* the running function's local result lists
    last,        \* what the most recent loop iteration did
    ret,         \* what the most recent completed call returned
    exc,         \* the exception that ended the session, if any
    solver,      \* where solve_ivp ended for the arguments it has been given
    returned     \* the tuples each evaluator has returned, call by call

vars == <<data_mass, delta_M, M_tot, grid, omega3, ln_den_end, driver,
          betas_tot, Omega_tot, betas_full, calls, pc, i, j, loc, last, ret, exc,
          solver, returned>>

Constraints == {"DM", "BBN", "SD", "CMB_AN", "GRB", "Reio", "LSP"}
OmegaConstraints == {"BBN", "SD", "CMB_AN", "GRB", "Reio"}

\* local lists of an evaluator: M1/B1 and M2/B2 are the filtered mass and beta
\* lists of the first and second sub-window, MO1/O1 and MO2/O2 the mass and
\* Omega lists (see each evaluator for which source list is which)
EmptyLoc == [M1 |-> <<>>, B1 |-> <<>>, M2 |-> <<>>, B2 |-> <<>>,
             MO1 |-> <<>>, O1 |-> <<>>, MO2 |-> <<>>, O2 |-> <<>>]

\* ------------------------------------------------------------------------
\* solve_ivp: what one call may return
\*   ret   "end"   the last returned log-density is ln_den_end
\*         "early" the last returned log-density is > ln_den_end
\*         "raise" an exception leaves the call or the indexing of its result
\*   evap  the event function end_evol reached zero above ln_den_end
\*   ok    the integration succeeded with a finite state
\* ------------------------------------------------------------------------
NoSol == [ret |-> "none", evap |-> FALSE, ok |-> TRUE]

\* end_evol is handed to solve_ivp as it is defined: nothing gives it the
\* attribute terminal, and solve_ivp takes an event without it for one that
\* is recorded and integrated through
end_evol_terminal == FALSE

\* a successful integration ends above ln_den_end only when a terminal event
\* stopped it; a terminal event that fires always stops it; a failed one ends
\* wherever the solver gave up
SolveOutcomes ==
    { o \in [ret : {"end", "early", "raise"}, evap : BOOLEAN, ok : BOOLEAN] :
        /\ o.ret = "raise" => ~o.evap /\ ~o.ok
        /\ o.ret = "early" => (o.ok <=> (end_evol_terminal /\ o.evap))
        /\ (o.ret = "end" /\ o.ok) => ~(end_evol_terminal /\ o.evap) }

\* solve_ivp computes its result from its arguments alone: for a (mass, beta)
\* it has been given before in the session (omega and ln_den_end are fixed)
\* it ends where it ended then, for a new one it may do anything
SolverFor(m, beta) ==
    IF \E r \in solver : r.m = m /\ r.beta = beta
    THEN { o \in SolveOutcomes :
             \E r \in solver : r.m = m /\ r.beta = beta /\ r.ret = o.ret }
    ELSE SolveOutcomes

\* beta*b(l_end)*(1 - t(l_end)/Delta_t)**(1/3), from the Full system's result
FullOmega(m) == [f |-> "Full", m |-> m]
\* beta*b(l_end)*(M_pl_g/M), from the Reduced system's result
ReducedOmega(m) == [f |-> "Reduced", m |-> m]


\* ------------------------------------------------------------------------
\* Formation density model
\* ------------------------------------------------------------------------
\* the exponent of k_end_over_k divides by 3*(1+omega), that of rho_f by
\* 1+3*omega: Python float division by zero raises ZeroDivisionError
KExpRaises(w3) == 3 + w3 = 0
RhoExpRaises(w3) == 1 + w3 = 0
RhoFRaises(w3) == KExpRaises(w3) \/ RhoExpRaises(w3)

k_end_over_k(Mpbh, w3) ==
    LogPow(LogDiv(LogMul(Mpbh, H_end), LogMul(LogMul(gam_rad, L_3), M_pl)),
           1 + w3, 3 + w3)

rho_f(Mpbh, w3) ==
    LET n == 2 * (3 + w3)
        d == 1 + w3
        k == k_end_over_k(Mpbh, w3)
    IN  LogDiv(rho_end_inf,
               IF d > 0 THEN LogPow(k, n, d) ELSE LogPow(k, -n, -d))

\* ln_den_f <= ln_den_end: the iteration is abandoned with continue
Skips(m) == rho_f(m, omega3) <= ln_den_end


\* ------------------------------------------------------------------------
\* Windows and trial betas of the evaluators
\* ------------------------------------------------------------------------
Win_DM_prim(m) == m > L_4p1e14
Win_DM_relic(m) == m < LogMul(L_1e11, M_pl_g)
Beta_DM_prim(m) == LogMul(L_1p86em18, LogPow(LogDiv(m, L_1e15), 1, 2))
Beta_DM_relic(m) == LogMul(L_2em28, LogPow(LogDiv(m, M_pl_g), 3, 2))

Win_BBN_1(m) == m >= data_mass[1] /\ m < data_mass[Row76 + 1]
Win_BBN_2(m) == m >= data_mass[Row76 + 1] /\ m < L_2p5e13
Beta_BBN_1(row) == LogDiv(data_abundances[row + 1], SqrtGamRad)
Beta_BBN_2 == LogDiv(data_abundances[Row76 + 1], SqrtGamRad)

Win_SD(m) == m > L_1e11 /\ m < L_1e13
Beta_SD(m) == LogDiv(L_1em21, SqrtGamRad)

Win_CMB_AN(m) == m > L_2p5e13 /\ m < L_2p4e14
Beta_CMB_AN(m) ==
    LogDiv(LogMul(L_3em30, LogPow(LogDiv(m, L_1e13), 31, 10)), SqrtGamRad)

Win_GRB_1(m) == m > L_3e13 /\ m < L_4p1e14
\* mutant: the second GRB window ends where the Reionization window begins
Win_GRB_2_ToReio(m) == m > L_4p1e14 /\ m < L_1e15
Win_GRB_2(m) == m > L_4p1e14 /\ m < L_7e16
Beta_GRB_1(m) ==
    LogDiv(LogMul(L_5em28, LogPow(LogDiv(m, L_4p1e14), -33, 10)), SqrtGamRad)
Beta_GRB_2(m) ==
    LogDiv(LogMul(L_5em26, LogPow(LogDiv(m, L_4p1e14), 39, 10)), SqrtGamRad)

Win_Reio(m) == m > L_1e15 /\ m < L_1e17
Beta_Reio(m) ==
    LogDiv(LogMul(L_2p4em26, LogPow(LogDiv(m, L_4p1e14), 43, 10)), SqrtGamRad)

Win_LSP(m) == m < L_1e11
Beta_LSP(m) ==
    LogDiv(LogMul(L_1em18, LogPow(LogDiv(m, L_1e11), -1, 2)), SqrtGamRad)

\* ------------------------------------------------------------------------
\* The caller
\* ------------------------------------------------------------------------
\* the masses a session's grid is made of: zero, and values below, on and
\* between the bounds of the windows
MassPoints ==
    {NegInf, 500, 900, 1000, 1100, 1200, 1280, 1400, 1461, 1470, 1600, 1800}

\* the grids of a free session: strictly increasing, at most MaxLen long
FreeGrids ==
    { s \in UNION { [1..k -> MassPoints] : k \in 0..MaxLen } :
        \A k \in 1..(Len(s) - 1) : s[k] < s[k + 1] }

\* the grid of the end-to-end scenario: 1e10, 1e12, 1e14, 5e14, 1e16
ScenarioGrid == <<1000, 1200, 1400, 1470, 1600>>

\* three times the omegas of a session: 1/3, 0, and the singular -1/3 and -1
Omega3s == {1, 0, -1, -3}

Order == [DM |-> 1, BBN |-> 2, SD |-> 3, CMB_AN |-> 4, GRB |-> 5, Reio |-> 6,
          LSP |-> 7, Omegas_LSP |-> 8]
Evaluators == DOMAIN Order

RECURSIVE SumCalls(_)
SumCalls(S) ==
    IF S = {} THEN 0
    ELSE LET e == CHOOSE x \in S : TRUE IN calls[e] + SumCalls(S \ {e})

\* calls that repeated an evaluator already called
Repeats == SumCalls(Evaluators) - Cardinality({ e \in Evaluators : calls[e] >= 1 })

\* a free session makes at most MaxCalls evaluator calls, in any order; a
\* pipeline session calls the evaluators in the order of the module, and
\* repeats a call it has made fewer than MaxCalls times
CanCall(e) ==
    /\ pc = "idle"
    /\ \/ driver = "free" /\ SumCalls(Evaluators) < MaxCalls
       \/ /\ driver = "pipeline"
          /\ \A p \in Evaluators : Order[p] < Order[e] => calls[p] >= 1
          /\ calls[e] = 0 \/ Repeats < MaxCalls - 1


\* ------------------------------------------------------------------------
\* Shared shape of a call, a loop iteration and a return
\* ------------------------------------------------------------------------
envVars == <<data_mass, delta_M, M_tot, grid, omega3, ln_den_end, driver>>

NoOmega == [f |-> "none", m |-> 0]
NoBeta == NegInf
NoRet == [fn |-> "none", val |-> EmptyLoc, env |-> <<>>]

\* mutant: the result lists outlive the call that filled them
Enter_KeepLists(fn) ==
    /\ pc' = fn /\ i' = 1 /\ j' = 0 /\ loc' = loc
    /\ UNCHANGED <<envVars, betas_tot, Omega_tot, betas_full, calls, last, ret, exc,
                   solver, returned>>

\* the function is entered: its local lists are empty, its loop starts
Enter(fn) ==
    /\ pc' = fn /\ i' = 1 /\ j' = 0 /\ loc' = EmptyLoc
    /\ UNCHANGED <<envVars, betas_tot, Omega_tot, betas_full, calls, last, ret, exc,
                   solver, returned>>

\* an exception leaves the function before its loop starts
RaiseAtEntry(e) ==
    /\ pc' = "raised" /\ exc' = e
    /\ UNCHANGED <<envVars, betas_tot, Omega_tot, betas_full, calls, i, j, loc,
                   last, ret, solver, returned>>

\* a function that starts with rho_form_rad = rho_f(M_tot, omega)
EnterWithRhoF(fn) ==
    IF RhoFRaises(omega3) THEN RaiseAtEntry("ZeroDivisionError") ELSE Enter(fn)

\* one loop iteration ends: the lists are as given, the index advances
Step(fn, win, m, loc2, bAcc, oAcc, path, solved, sol, beta, y, jn) ==
    /\ i' = i + 1 /\ j' = jn /\ loc' = loc2
    /\ betas_tot' = bAcc /\ Omega_tot' = oAcc
    /\ last' = [fn |-> fn, idx |-> i, m |-> m, win |-> win, path |-> path,
                solved |-> solved, sol |-> sol, beta |-> beta, y |-> y]
    /\ solver' = IF solved
                  THEN solver \cup {[m |-> m, beta |-> beta, ret |-> sol.ret]}
                  ELSE solver
    /\ UNCHANGED <<envVars, betas_full, calls, pc, ret, exc, returned>>

\* an exception leaves the loop body after solve_ivp was called: nothing
\* catches it, so it leaves the function and ends the session
Abort(fn, win, m, loc2, sol, beta, e) ==
    /\ pc' = "raised" /\ exc' = e /\ loc' = loc2
    /\ last' = [fn |-> fn, idx |-> i, m |-> m, win |-> win, path |-> "raise",
                solved |-> TRUE, sol |-> sol, beta |-> beta, y |-> NoOmega]
    /\ solver' = solver \cup {[m |-> m, beta |-> beta, ret |-> sol.ret]}
    /\ UNCHANGED <<envVars, betas_tot, Omega_tot, betas_full, calls, i, j, ret,
                   returned>>

\* an exception leaves the loop body before solve_ivp is reached
AbortUnsolved(fn, win, m, loc2, e) ==
    /\ pc' = "raised" /\ exc' = e /\ loc' = loc2
    /\ last' = [fn |-> fn, idx |-> i, m |-> m, win |-> win, path |-> "raise",
                solved |-> FALSE, sol |-> NoSol, beta |-> NoBeta, y |-> NoOmega]
    /\ UNCHANGED <<envVars, betas_tot, Omega_tot, betas_full, calls, i, j, ret,
                   solver, returned>>

\* the else branch of an evaluator with an Omega accumulator
Outside(fn, m) ==
    Step(fn, 0, m, loc,
         [betas_tot EXCEPT ![fn] = Append(@, ev1)],
         [Omega_tot EXCEPT ![fn] = Append(@, ev2)],
         "outside", FALSE, NoSol, ev1, ev2, j)

\* mutant: the skip test comes before the mass and beta are listed
InWindowFull_SkipFirst(fn, win, m, beta, fM, fB, fMO, fO, jn) ==
    LET l1 == [loc EXCEPT ![fM] = Append(@, m), ![fB] = Append(@, beta)] IN
    IF Skips(m)
    THEN Step(fn, win, m, loc, betas_tot, Omega_tot, "skip", FALSE, NoSol, beta,
              NoOmega, j)
    ELSE \E sol \in SolverFor(m, beta) :
           IF sol.ret = "raise"
           THEN Abort(fn, win, m, l1, sol, beta, "IntegrationError")
           ELSE LET y == FullOmega(m)
                    l2 == [l1 EXCEPT ![fO] = Append(@, y), ![fMO] = Append(@, m)]
                IN  Step(fn, win, m, l2,
                         [betas_tot EXCEPT ![fn] = Append(@, beta)],
                         [Omega_tot EXCEPT ![fn] = Append(@, y)],
                         "full", TRUE, sol, beta, y, jn)

\* the branch of a sub-window that always uses the Full system's formula:
\* the mass and beta go to the lists fM and fB; then either continue, or
\* solve_ivp and the mass and Omega go to fMO and fO and to the accumulators
InWindowFull(fn, win, m, beta, fM, fB, fMO, fO, jn) ==
    LET l1 == [loc EXCEPT ![fM] = Append(@, m), ![fB] = Append(@, beta)] IN
    IF Skips(m)
    THEN Step(fn, win, m, l1, betas_tot, Omega_tot, "skip", FALSE, NoSol, beta,
              NoOmega, j)
    ELSE \E sol \in SolverFor(m, beta) :
           IF sol.ret = "raise"
           THEN Abort(fn, win, m, l1, sol, beta, "IntegrationError")
           ELSE LET y == FullOmega(m)
                    l2 == [l1 EXCEPT ![fO] = Append(@, y), ![fMO] = Append(@, m)]
                IN  Step(fn, win, m, l2,
                         [betas_tot EXCEPT ![fn] = Append(@, beta)],
                         [Omega_tot EXCEPT ![fn] = Append(@, y)],
                         "full", TRUE, sol, beta, y, jn)

\* the loop is over: the function returns its lists
Return(fn, val) ==
    /\ pc = fn /\ i > Len(grid)
    /\ pc' = "idle"
    /\ calls' = [calls EXCEPT ![fn] = @ + 1]
    /\ ret' = [fn |-> fn, val |-> val, env |-> <<>>]
    /\ returned' = [returned EXCEPT ![fn] = Append(@, val)]
    /\ UNCHANGED <<envVars, betas_tot, Omega_tot, betas_full, i, j, loc, last, exc,
                   solver>>

DivAll(s, d) == [k \in 1..Len(s) |-> LogDiv(s[k], d)]

\* ------------------------------------------------------------------------
\* Betas_DM: M1/B1 are M_n/betas_prim, M2/B2 are M_relic/betas_relic_prim
\* ------------------------------------------------------------------------
Betas_DM_call == CanCall("DM") /\ Enter("DM")

Betas_DM_loop ==
    /\ pc = "DM" /\ i <= Len(grid)
    /\ LET m == grid[i]
           win == IF Win_DM_prim(m) THEN 1 ELSE IF Win_DM_relic(m) THEN 2 ELSE 0
           beta == IF win = 1 THEN Beta_DM_prim(m)
                   ELSE IF win = 2 THEN Beta_DM_relic(m) ELSE ev1
           l1 == IF win = 1
                 THEN [loc EXCEPT !.M1 = Append(@, m), !.B1 = Append(@, beta)]
                 ELSE IF win = 2
                 THEN [loc EXCEPT !.M2 = Append(@, m), !.B2 = Append(@, beta)]
                 ELSE loc
       IN  Step("DM", win, m, l1,
                [betas_tot EXCEPT !["DM"] = Append(@, LogDiv(beta, SqrtGamRad))],
                Omega_tot, IF win = 0 THEN "outside" ELSE "direct",
                FALSE, NoSol, beta, NoOmega, j)

Betas_DM_return ==
    Return("DM", [loc EXCEPT !.B1 = DivAll(@, SqrtGamRad),
                             !.B2 = DivAll(@, SqrtGamRad)])

\* ------------------------------------------------------------------------
\* Betas_BBN: M1/B1 are M_bbn/betas_bbn (both windows), MO1/O1 are
\* M_bbn_bbn/Omegas_bbn, MO2/O2 are M_bbn_pbbn/Omegas_bbn_pbbn
\* ------------------------------------------------------------------------
Betas_BBN_call == CanCall("BBN") /\ EnterWithRhoF("BBN")

\* first window: the beta of row j, and the Reduced system when the first
\* integration stopped early.  The second solve_ivp call is taken to return.
Betas_BBN_w1(m) ==
    IF j >= TableRows
    THEN AbortUnsolved("BBN", 1, m, [loc EXCEPT !.M1 = Append(@, m)], "IndexError")
    ELSE
    LET beta == Beta_BBN_1(j)
        l1 == [loc EXCEPT !.M1 = Append(@, m), !.B1 = Append(@, beta)]
    IN  IF Skips(m)
        THEN Step("BBN", 1, m, l1, betas_tot, Omega_tot, "skip", FALSE, NoSol,
                  beta, NoOmega, j)
        ELSE \E sol \in SolverFor(m, beta) :
               IF sol.ret = "raise"
               THEN Abort("BBN", 1, m, l1, sol, beta, "IntegrationError")
               ELSE LET early == sol.ret = "early"
                        y == IF early THEN ReducedOmega(m) ELSE FullOmega(m)
                        l2 == IF early
                              THEN [l1 EXCEPT !.O2 = Append(@, y),
                                              !.MO2 = Append(@, m)]
                              ELSE [l1 EXCEPT !.O1 = Append(@, y),
                                              !.MO1 = Append(@, m)]
                    IN  Step("BBN", 1, m, l2,
                             [betas_tot EXCEPT !["BBN"] = Append(@, beta)],
                             [Omega_tot EXCEPT !["BBN"] = Append(@, y)],
                             IF early THEN "reduced" ELSE "full",
                             TRUE, sol, beta, y, j + 1)

Betas_BBN_loop ==
    /\ pc = "BBN" /\ i <= Len(grid)
    /\ LET m == grid[i] IN
       IF Win_BBN_1(m) THEN Betas_BBN_w1(m)
       ELSE IF Win_BBN_2(m)
       THEN InWindowFull("BBN", 2, m, Beta_BBN_2, "M1", "B1", "MO1", "O1", j + 1)
       ELSE Outside("BBN", m)

Betas_BBN_return == Return("BBN", loc)

\* ------------------------------------------------------------------------
\* Betas_SD: M1/B1 are M_sd/betas_sd, MO1/O1 are M_sd_bbn/Omegas_sd
\* ------------------------------------------------------------------------
Betas_SD_call == CanCall("SD") /\ EnterWithRhoF("SD")

Betas_SD_loop ==
    /\ pc = "SD" /\ i <= Len(grid)
    /\ LET m == grid[i] IN
       IF Win_SD(m)
       THEN InWindowFull("SD", 1, m, Beta_SD(m), "M1", "B1", "MO1", "O1", j)
       ELSE Outside("SD", m)

Betas_SD_return == Return("SD", loc)

\* ------------------------------------------------------------------------
\* Betas_CMB_AN: M1/B1 are M_an/betas_an, MO1/O1 are M_an_bbn/Omegas_an
\* ------------------------------------------------------------------------
Betas_CMB_AN_call == CanCall("CMB_AN") /\ EnterWithRhoF("CMB_AN")

Betas_CMB_AN_loop ==
    /\ pc = "CMB_AN" /\ i <= Len(grid)
    /\ LET m == grid[i] IN
       IF Win_CMB_AN(m)
       THEN InWindowFull("CMB_AN", 1, m, Beta_CMB_AN(m), "M1", "B1", "MO1", "O1", j)
       ELSE Outside("CMB_AN", m)

Betas_CMB_AN_return == Return("CMB_AN", loc)

\* ------------------------------------------------------------------------
\* Betas_GRB: M1/B1 and M2/B2 are M_grb1/betas_grb1 and M_grb2/betas_grb2,
\* MO1/O1 and MO2/O2 are M_grb1_bbn/Omegas_grb1 and M_grb2_bbn/Omegas_grb2
\* ------------------------------------------------------------------------
Betas_GRB_call == CanCall("GRB") /\ EnterWithRhoF("GRB")

Betas_GRB_loop ==
    /\ pc = "GRB" /\ i <= Len(grid)
    /\ LET m == grid[i] IN
       IF Win_GRB_1(m)
       THEN InWindowFull("GRB", 1, m, Beta_GRB_1(m), "M1", "B1", "MO1", "O1", j)
       ELSE IF Win_GRB_2(m)
       THEN InWindowFull("GRB", 2, m, Beta_GRB_2(m), "M2", "B2", "MO2", "O2", j)
       ELSE Outside("GRB", m)

Betas_GRB_return == Return("GRB", loc)

\* ------------------------------------------------------------------------
\* Betas_Reio: M1/B1 are M_reio/betas_reio, MO1/O1 are M_reio_bbn/Omegas_reio
\* ------------------------------------------------------------------------
Betas_Reio_call == CanCall("Reio") /\ EnterWithRhoF("Reio")

Betas_Reio_loop ==
    /\ pc = "Reio" /\ i <= Len(grid)
    /\ LET m == grid[i] IN
       IF Win_Reio(m)
       THEN InWindowFull("Reio", 1, m, Beta_Reio(m), "M1", "B1", "MO1", "O1", j)
       ELSE Outside("Reio", m)

Betas_Reio_return == Return("Reio", loc)

\* ------------------------------------------------------------------------
\* Betas_LSP: M1/B1 are M_lsp/betas_lsp
\* ------------------------------------------------------------------------
Betas_LSP_call == CanCall("LSP") /\ Enter("LSP")

Betas_LSP_loop ==
    /\ pc = "LSP" /\ i <= Len(grid)
    /\ LET m == grid[i]
           inw == Win_LSP(m)
           beta == IF inw THEN Beta_LSP(m) ELSE ev1
           l1 == IF inw
                 THEN [loc EXCEPT !.M1 = Append(@, m), !.B1 = Append(@, beta)]
                 ELSE loc
       IN  Step("LSP", IF inw THEN 1 ELSE 0, m, l1,
                [betas_tot EXCEPT !["LSP"] = Append(@, beta)],
                Omega_tot, IF inw THEN "direct" ELSE "outside",
                FALSE, NoSol, beta, NoOmega, j)

Betas_LSP_return == Return("LSP", loc)

\* ------------------------------------------------------------------------
\* Omegas_LSP: MO1/O1 are M_lsp_bbn/Omegas_lsp, MO2/O2 are
\* M_lsp_pbbn/Omegas_lsp_pbbn.  The Full branch reads the undefined name
\* t_pl; the else branch appends to constraints.Omega_SD_tot.
\* ------------------------------------------------------------------------
Omegas_LSP_call == CanCall("Omegas_LSP") /\ EnterWithRhoF("Omegas_LSP")

Omegas_LSP_loop ==
    /\ pc = "Omegas_LSP" /\ i <= Len(grid)
    /\ LET m == grid[i] IN
       IF Win_LSP(m)
       THEN LET beta == Beta_LSP(m) IN
            IF Skips(m)
            THEN Step("Omegas_LSP", 1, m, loc, betas_tot, Omega_tot, "skip",
                      FALSE, NoSol, beta, NoOmega, j)
            ELSE \E sol \in SolverFor(m, beta) :
                   IF sol.ret = "raise"
                   THEN Abort("Omegas_LSP", 1, m, loc, sol, beta, "IntegrationError")
                   ELSE IF sol.ret = "early"
                   THEN LET y == ReducedOmega(m) IN
                        Step("Omegas_LSP", 1, m,
                             [loc EXCEPT !.O2 = Append(@, y), !.MO2 = Append(@, m)],
                             betas_tot, Omega_tot, "reduced", TRUE, sol, beta, y, j)
                   ELSE Abort("Omegas_LSP", 1, m, loc, sol, beta, "NameError")
       ELSE Step("Omegas_LSP", 0, m, loc, betas_tot,
                 [Omega_tot EXCEPT !["SD"] = Append(@, ev2)],
                 "outside", FALSE, NoSol, NoBeta, ev2, j)

Omegas_LSP_return == Return("Omegas_LSP", loc)


\* ------------------------------------------------------------------------
\* get_Betas_full
\* ------------------------------------------------------------------------
Min2(a, b) == IF b < a THEN b ELSE a

\* mutant: the LSP array is left out of the minimum
EnvelopeAt_NoLSP(k) ==
    Min2(Min2(Min2(Min2(Min2(betas_tot["DM"][k], betas_tot["BBN"][k]),
                             betas_tot["SD"][k]),
                        betas_tot["CMB_AN"][k]),
                   betas_tot["GRB"][k]),
         betas_tot["Reio"][k])

\* min(DM_tot[i], BBN_tot[i], SD_tot[i], CMB_tot[i], GRB_tot[i], Reio_tot[i],
\*     LSP_tot[i])
EnvelopeAt(k) ==
    Min2(Min2(Min2(Min2(Min2(Min2(betas_tot["DM"][k], betas_tot["BBN"][k]),
                                  betas_tot["SD"][k]),
                             betas_tot["CMB_AN"][k]),
                        betas_tot["GRB"][k]),
                   betas_tot["Reio"][k]),
         betas_tot["LSP"][k])

\* the indices the loop fills before an array proves too short
Filled(n) ==
    { k \in 1..n : \A c \in Constraints : \A h \in 1..k : h <= Len(betas_tot[c]) }

\* betas_full = M_tot*0 is assigned first and filled index by index; indexing
\* an array shorter than the grid raises IndexError, a longer one is not read
\* past the grid
get_Betas_full ==
    /\ pc = "idle"
    /\ LET n == Len(grid)
           filled == Filled(n)
       IN  /\ betas_full' = [k \in 1..n |-> IF k \in filled THEN EnvelopeAt(k)
                                           ELSE NegInf]
           /\ IF filled = 1..n
              THEN /\ ret' = [fn |-> "get_Betas_full", val |-> EmptyLoc,
                              env |-> betas_full']
                   /\ UNCHANGED <<pc, exc>>
              ELSE /\ pc' = "raised" /\ exc' = "IndexError"
                   /\ UNCHANGED ret
    /\ UNCHANGED <<envVars, betas_tot, Omega_tot, calls, i, j, loc, last, solver,
                   returned>>

\* ------------------------------------------------------------------------
\* put_M_array
\* ------------------------------------------------------------------------
\* first loop: M = 10**(i*delta_M) is appended while the previous M (0 at
\* first) is below data_mass[0]
RECURSIVE BelowAnchor(_, _, _)
BelowAnchor(M, k, d) ==
    IF M < data_mass[1]
    THEN <<k * d>> \o BelowAnchor(k * d, k + 1, d)
    ELSE <<>>

\* second loop: M = A*10**(j*delta_M) is appended while the previous M (the
\* last table mass at first) is below 10**20
RECURSIVE AboveTable(_, _, _, _)
\* mutant: the second loop is left out
AboveTable_None(M, A, k, d) == <<>>
AboveTable(M, A, k, d) ==
    IF M < L_1e20
    THEN <<A + (k + 1) * d>> \o AboveTable(A + (k + 1) * d, A, k + 1, d)
    ELSE <<>>

\* list.append on constraints.M_tot, then np.concatenate and np.append, which
\* leave an ndarray in constraints.M_tot: an ndarray has no append
put_M_array ==
    /\ pc = "idle"
    /\ IF M_tot.kind = "ndarray" /\ NegInf < data_mass[1]
       THEN /\ pc' = "raised" /\ exc' = "AttributeError"
            /\ UNCHANGED <<M_tot, ret>>
       ELSE LET below == M_tot.val \o BelowAnchor(NegInf, 0, delta_M)
                joined == below \o data_mass
                A == joined[Len(joined)]
                all == joined \o AboveTable(A, A, 0, delta_M)
            IN  /\ M_tot' = [kind |-> "ndarray", val |-> all]
                /\ ret' = [fn |-> "put_M_array", val |-> EmptyLoc, env |-> all]
                /\ UNCHANGED <<pc, exc>>
    /\ UNCHANGED <<data_mass, delta_M, grid, omega3, ln_den_end, driver,
                   betas_tot, Omega_tot, betas_full, calls, i, j, loc, last,
                   solver, returned>>

\* ------------------------------------------------------------------------
\* Sessions
\* ------------------------------------------------------------------------
NoLast == [fn |-> "none", idx |-> 0, m |-> 0, win |-> 0, path |-> "none",
           solved |-> FALSE, sol |-> NoSol, beta |-> NoBeta, y |-> NoOmega]

\* the state after the modules are loaded: empty accumulators, an empty list
\* in constraints.M_tot, nothing called yet
Loaded ==
    /\ M_tot = [kind |-> "list", val |-> <<>>]
    /\ betas_tot = [c \in Constraints |-> <<>>]
    /\ Omega_tot = [c \in OmegaConstraints |-> <<>>]
    /\ betas_full = <<>>
    /\ calls = [f \in Evaluators |-> 0]
    /\ pc = "idle" /\ i = 0 /\ j = 0 /\ loc = EmptyLoc
    /\ last = NoLast /\ ret = NoRet /\ exc = "none"
    /\ solver = {} /\ returned = [f \in Evaluators |-> <<>>]

\* resolutions of put_M_array, in hundredths of a decade
MaxDelta == 10
DeltaMs == { 10 * k : k \in 1..MaxDelta }
\* tables a grid is anchored to; the last ends above 10**20
Tables ==
    { MakeTable(s, TableStep) : s \in {TableStart, 910, 925, 1000} } \cup
    { MakeTable(TableStart, 3 * TableStep) }

\* a free session: any grid, any omega, evaluators in any order
Init ==
    /\ Loaded
    /\ data_mass = DefaultDataMass /\ delta_M = 10
    /\ grid \in FreeGrids
    /\ omega3 \in Omega3s
    /\ ln_den_end \in RhoEnds
    /\ driver = "free"

\* grids of the pipeline: the end-to-end scenario and the shortest grids of
\* positive masses
PipelineGrids ==
    {ScenarioGrid} \cup
    { g \in FreeGrids : Len(g) <= 1 /\ \A k \in 1..Len(g) : g[k] > NegInf }

\* a pipeline session: the seven evaluators and Omegas_LSP in module order
InitPipeline ==
    /\ Loaded
    /\ data_mass = DefaultDataMass /\ delta_M = 10
    /\ grid \in PipelineGrids
    /\ omega3 \in {1, 0}
    /\ ln_den_end \in RhoEnds
    /\ driver = "pipeline"

\* a grid-building session: put_M_array alone
InitGrid ==
    /\ Loaded
    /\ data_mass \in Tables /\ delta_M \in DeltaMs
    /\ grid = <<>> /\ omega3 = 1 /\ ln_den_end = RhoEndLate
    /\ driver = "free"

\* what the first put_M_array(d) of a session returns
BuiltGrid(d) ==
    LET joined == BelowAnchor(NegInf, 0, d) \o data_mass
        A == joined[Len(joined)]
    IN  joined \o AboveTable(A, A, 0, d)

\* the trial betas Betas_BBN hands to solve_ivp
BBNBetas == { Beta_BBN_1(r) : r \in 0..(TableRows - 1) } \cup { Beta_BBN_2 }

\* a solve_ivp that integrates every mass of the grid g to ln_den_end
IntegratesAll(g) ==
    { [m |-> g[k], beta |-> b, ret |-> "end"] : k \in 1..Len(g), b \in BBNBetas }

\* resolutions of the BBN session
BBNDeltas == {50, 70, 100}

\* a BBN session: put_M_array(delta_M) has returned the grid, which is handed
\* to Betas_BBN; solve_ivp integrates every mass it is given
InitBBN ==
    /\ data_mass = DefaultDataMass /\ delta_M \in BBNDeltas
    /\ grid = BuiltGrid(delta_M)
    /\ M_tot = [kind |-> "ndarray", val |-> grid]
    /\ ret = [fn |-> "put_M_array", val |-> EmptyLoc, env |-> grid]
    /\ omega3 = 1 /\ ln_den_end \in RhoEnds /\ driver = "free"
    /\ betas_tot = [c \in Constraints |-> <<>>]
    /\ Omega_tot = [c \in OmegaConstraints |-> <<>>]
    /\ betas_full = <<>>
    /\ calls = [f \in Evaluators |-> 0]
    /\ pc = "idle" /\ i = 0 /\ j = 0 /\ loc = EmptyLoc
    /\ last = NoLast /\ exc = "none"
    /\ solver = IntegratesAll(grid) /\ returned = [f \in Evaluators |-> <<>>]

NextBBN == Betas_BBN_call \/ Betas_BBN_loop \/ Betas_BBN_return

Next ==
    \/ Betas_DM_call \/ Betas_DM_loop \/ Betas_DM_return
    \/ Betas_BBN_call \/ Betas_BBN_loop \/ Betas_BBN_return
    \/ Betas_SD_call \/ Betas_SD_loop \/ Betas_SD_return
    \/ Betas_CMB_AN_call \/ Betas_CMB_AN_loop \/ Betas_CMB_AN_return
    \/ Betas_GRB_call \/ Betas_GRB_loop \/ Betas_GRB_return
    \/ Betas_Reio_call \/ Betas_Reio_loop \/ Betas_Reio_return
    \/ Betas_LSP_call \/ Betas_LSP_loop \/ Betas_LSP_return
    \/ Omegas_LSP_call \/ Omegas_LSP_loop \/ Omegas_LSP_return
    \/ get_Betas_full

NextGrid == put_M_array

Spec == Init /\ [][Next]_vars
SpecPipeline == InitPipeline /\ [][Next]_vars
SpecGrid == InitGrid /\ [][NextGrid]_vars
SpecBBN == InitBBN /\ [][NextBBN]_vars


\* ========================================================================
\* Properties
\* ========================================================================
\* the mass lies in a sub-window of the constraint
InWindow(c, m) ==
    CASE c = "DM" -> Win_DM_prim(m) \/ Win_DM_relic(m)
      [] c = "BBN" -> Win_BBN_1(m) \/ Win_BBN_2(m)
      [] c = "SD" -> Win_SD(m)
      [] c = "CMB_AN" -> Win_CMB_AN(m)
      [] c = "GRB" -> Win_GRB_1(m) \/ Win_GRB_2(m)
      [] c = "Reio" -> Win_Reio(m)
      [] c = "LSP" -> Win_LSP(m)

\* an accumulator entry that marks "not applicable": ev1, or ev1 divided by
\* gam_rad**(1/2) as Betas_DM stores it
IsSentinel(b) == b = ev1 \/ b = LogDiv(ev1, SqrtGamRad)

AllLengthsAre(n) == \A c \in Constraints : Len(betas_tot[c]) = n

\* C1: once an evaluator has been invoked once from empty accumulators and
\* has returned, its beta accumulator has one entry per grid mass, and entry
\* k is the decision for grid mass k (the sentinel exactly when the mass is
\* outside the constraint's windows).
C1_AccumulatorAligned ==
    \A c \in Constraints :
        (pc = "idle" /\ calls[c] = 1) =>
            /\ Len(betas_tot[c]) = Len(grid)
            /\ \A k \in 1..Len(grid) :
                 IsSentinel(betas_tot[c][k]) <=> ~InWindow(c, grid[k])

\* C2: a loop iteration of an evaluator over a mass outside all its
\* sub-windows appends exactly the sentinel ev1 to the beta accumulator and,
\* where the constraint keeps one, exactly ev2 to its Omega accumulator.
C2_OutsideAppendsSentinel ==
    [][\A c \in Constraints :
         (pc = c /\ i <= Len(grid) /\ ~InWindow(c, grid[i])) =>
             /\ betas_tot'[c] = Append(betas_tot[c], ev1)
             /\ c \in OmegaConstraints =>
                  Omega_tot'[c] = Append(Omega_tot[c], ev2)]_vars

\* the least of the seven accumulator entries at index k, stated without
\* the combiner's own fold
IsLeastAt(v, k) ==
    /\ \E c \in Constraints : v = betas_tot[c][k]
    /\ \A c \in Constraints : v <= betas_tot[c][k]

\* C3: when the seven accumulators have the grid's length, the envelope
\* get_Betas_full returned has that length and its element k is the minimum
\* of the seven entries at k, sentinels included.
C3_EnvelopeIsMin ==
    (ret.fn = "get_Betas_full" /\ AllLengthsAre(Len(grid))) =>
        /\ Len(ret.env) = Len(grid)
        /\ betas_full = ret.env
        /\ \A k \in 1..Len(grid) : IsLeastAt(ret.env[k], k)

\* C3 witness: the combiner has returned the envelope of the scenario grid,
\* with a non-sentinel minimum at the first mass and sentinels in the fold
C3_Witness ==
    /\ grid = ScenarioGrid /\ ret.fn = "get_Betas_full" /\ AllLengthsAre(5)
    /\ ret.env[1] < ev1 /\ betas_tot["SD"][1] = ev1

\* a step in which get_Betas_full returns an envelope
CombinerReturns == pc = "idle" /\ ret' # ret /\ ret'.fn = "get_Betas_full"

\* C4: get_Betas_full returns no envelope when an accumulator's length
\* differs from the grid's, be it shorter or longer.
C4_MismatchFails ==
    [][CombinerReturns => AllLengthsAre(Len(grid))]_vars

\* the seven evaluators have each run once over the scenario grid, omega = 1/3
ScenarioDone ==
    /\ grid = ScenarioGrid /\ omega3 = 1 /\ pc = "idle"
    /\ \A c \in Constraints : calls[c] = 1

NonSentinelAt(c, k) == k <= Len(betas_tot[c]) /\ ~IsSentinel(betas_tot[c][k])

ScenarioRouted ==
    [DM |-> {4, 5}, BBN |-> {1, 2}, SD |-> {2}, CMB_AN |-> {3},
     GRB |-> {3, 4, 5}, Reio |-> {5}, LSP |-> {1}]

\* grid indices that leave an entry in the constraint's accumulator: all but
\* the routed masses of an integrating evaluator that take the skip path
ScenarioKept(c) ==
    SelectSeq([k \in 1..5 |-> k],
              LAMBDA k : ~(c \in OmegaConstraints /\ k \in ScenarioRouted[c]
                           /\ Skips(ScenarioGrid[k])))

C6_ReducedOnEvaporation ==
    (last.solved /\ last.sol.ret = "early" /\ last.sol.evap) =>
        last.path = "reduced" /\ last.y.f = "Reduced"

\* C7: the sequence put_M_array returns is strictly increasing.
C7_GridStrictlyIncreasing ==
    ret.fn = "put_M_array" =>
        \A k \in 1..(Len(ret.env) - 1) : ret.env[k] < ret.env[k + 1]

\* C8: a second invocation of put_M_array with the same resolution does not
\* fail and returns the sequence the first one returned.
C8_GridDeterministic ==
    [][ret.fn = "put_M_array" =>
         pc' # "raised" /\ ret'.fn = "put_M_array" /\ ret'.env = ret.env]_vars

\* C9: when the integration of an in-window mass fails, the evaluator does
\* not abort and the sentinel Omega is what the iteration yields.
C9_FailureSubstitutesSentinel ==
    (last.solved /\ ~last.sol.ok) => pc # "raised" /\ last.y = ev2

\* C10: solve_ivp is never called for a non-positive mass or a singular omega.
C10_DomainCheckedBeforeSolve ==
    last.solved => last.m > NegInf /\ ~RhoFRaises(omega3)

\* C11: the tuples an evaluator returns depend on the grid and omega alone:
\* every invocation of an evaluator in a session returns the tuple its first
\* invocation returned, whatever the accumulators hold by then and whichever
\* evaluators ran in between.
C11_NoLeakBetweenCalls ==
    \A e \in Evaluators :
        \A a, b \in 1..Len(returned[e]) : returned[e][a] = returned[e][b]

\* C11 witness: Betas_BBN has returned a second time, Betas_SD having run in
\* between, with a mass and an Omega in the returned lists
C11_Witness ==
    /\ driver = "pipeline" /\ ret.fn = "BBN" /\ Len(returned["BBN"]) = 2
    /\ Len(returned["SD"]) = 1
    /\ Len(ret.val.M1) > 0 /\ Len(ret.val.O1) > 0
    /\ Len(betas_tot["BBN"]) > Len(grid)

\* C12: the grid put_M_array returns contains the mass column of the table,
\* whole, contiguous and in table order, and its last element is >= 10**20.
C12_GridCoversTable ==
    ret.fn = "put_M_array" =>
        LET g == ret.env IN
        /\ \E o \in 0..(Len(g) - TableRows) :
              \A k \in 1..TableRows : g[o + k] = data_mass[k]
        /\ g[Len(g)] >= L_1e20

\* C12 witness: a grid was returned whose values above the table were added
\* by the second loop
C12_Witness ==
    /\ ret.fn = "put_M_array" /\ data_mass[TableRows] < L_1e20
    /\ Len(ret.env) > TableRows + 2
    /\ ret.env[Len(ret.env)] > data_mass[TableRows]

\* the constraint whose accumulators an evaluator owns
OwnConstraint(e) == IF e = "Omegas_LSP" THEN "LSP" ELSE e

\* C13: a step of an evaluator, Omegas_LSP included, leaves the beta and
\* Omega accumulators of every constraint but its own unchanged, and the
\* beta and Omega accumulators of a constraint have equal length after it.
C13_OwnAccumulatorsOnly ==
    [][\A e \in Evaluators :
         pc = e =>
             /\ \A c \in Constraints \ {OwnConstraint(e)} :
                  /\ betas_tot'[c] = betas_tot[c]
                  /\ c \in OmegaConstraints => Omega_tot'[c] = Omega_tot[c]
             /\ \A c \in OmegaConstraints :
                  Len(betas_tot'[c]) = Len(Omega_tot'[c])]_vars

\* the table row (0-based) whose mass is m
IsRow(m) == \E k \in 1..TableRows : data_mass[k] = m
RowOf(m) == (CHOOSE k \in 1..TableRows : data_mass[k] = m) - 1

\* C14: in Betas_BBN over a grid put_M_array built, a mass equal to table
\* row k < 76 gets the trial beta data_abundances[k]/sqrt(gam_rad), a mass
\* of the second window gets data_abundances[76]/sqrt(gam_rad), and the row
\* index never runs past the end of the table.
C14_RowIndexTracksMass ==
    /\ (last.fn = "BBN" /\ last.win = 1 /\ IsRow(last.m)) =>
           last.beta = Beta_BBN_1(RowOf(last.m))
    /\ (last.fn = "BBN" /\ last.win = 2) => last.beta = Beta_BBN_2
    /\ ~(pc = "raised" /\ exc = "IndexError")

\* C15: the evaporation event ends the Full integration: when end_evol
\* reaches zero above the reference log-density the last returned
\* log-density is above it, and an integration that succeeds without the
\* event runs to the reference log-density.
C15_EvaporationTerminates ==
    (last.solved /\ last.sol.ret # "raise") =>
        /\ last.sol.evap => last.sol.ret = "early"
        /\ (~last.sol.evap /\ last.sol.ok) => last.sol.ret = "end"

\* the masses an evaluator lists in its first and second filtered mass list
InList1(c, m) ==
    CASE c = "DM" -> Win_DM_prim(m)
      [] c = "BBN" -> Win_BBN_1(m) \/ Win_BBN_2(m)
      [] c = "SD" -> Win_SD(m)
      [] c = "CMB_AN" -> Win_CMB_AN(m)
      [] c = "GRB" -> Win_GRB_1(m)
      [] c = "Reio" -> Win_Reio(m)
      [] c = "LSP" -> Win_LSP(m)

InList2(c, m) ==
    CASE c = "DM" -> ~Win_DM_prim(m) /\ Win_DM_relic(m)
      [] c = "GRB" -> ~Win_GRB_1(m) /\ Win_GRB_2(m)
      [] OTHER -> FALSE

\* the beta an evaluator other than Betas_BBN returns for a listed mass
ReturnedBeta1(c, m) ==
    CASE c = "DM" -> LogDiv(Beta_DM_prim(m), SqrtGamRad)
      [] c = "SD" -> Beta_SD(m)
      [] c = "CMB_AN" -> Beta_CMB_AN(m)
      [] c = "GRB" -> Beta_GRB_1(m)
      [] c = "Reio" -> Beta_Reio(m)
      [] c = "LSP" -> Beta_LSP(m)

ReturnedBeta2(c, m) ==
    CASE c = "DM" -> LogDiv(Beta_DM_relic(m), SqrtGamRad)
      [] c = "GRB" -> Beta_GRB_2(m)

\* each Omega of the list belongs to the mass at its index
Companions(M, O) == Len(O) = Len(M) /\ \A k \in 1..Len(O) : O[k].m = M[k]

=============================================================================
